---- MODULE Spec2Model ----
(***************************************************************************)
(* Model of the stock-data ingestion core:                                 *)
(*   rate_limiter.py  TokenBucketRateLimiter  (_refill, acquire)           *)
(*   fetcher.py       StockFetcher._make_request (retry / backoff loop)    *)
(*   pipeline.py      StockDataPipeline (transform_*, load_*,              *)
(*                    process_single_stock, run)                           *)
(*                                                                         *)
(* Time is counted in ticks of 0.5 s (the poll sleep of fetcher.py:61).    *)
(* Tokens are counted in units of 1/TokenScale of a token, chosen so that  *)
(* the fetcher's refill rate 5/60 token/s is exactly 1 unit per tick.      *)
(* The clock itself is not stored: time_elapsed is the clock reading minus *)
(* last_refill_time, the only way the code ever uses either of them.       *)
(***************************************************************************)
EXTENDS Integers, Sequences, FiniteSets, TLC

VARIABLES
    \* TokenBucketRateLimiter fields
    max_tokens,        \* self.max_tokens (whole tokens)
    refill_rate,       \* self.refill_rate (token units per tick)
    tokens,            \* self.tokens (token units)
    time_elapsed,      \* time.time() - self.last_refill_time (ticks)
    acquired,          \* return value of the last acquire(): "none" before any call
    \* StockFetcher._make_request frame
    fpc,               \* position in _make_request
    function,          \* params["function"]
    attempt,           \* loop variable of line 58
    response,          \* outcome of the last requests.get
    result,            \* value returned: <<>> is None, <<d>> is the payload d
    calls,             \* remote calls issued by this invocation
    sleeps,            \* retry sleeps of this invocation: <<[kind, delay]>>
    plain_only,        \* every call of this invocation ended in a plain retryable failure
    fetches,           \* invocations of _make_request started so far
    \* StockDataPipeline.run / process_single_stock frame
    symbols,           \* the batch handed to run
    idx,               \* position of the run loop in symbols (1-based)
    rpc,               \* position in run
    ppc,               \* position in process_single_stock
    company_data,      \* local of process_single_stock
    quote_data,        \* local of process_single_stock
    stock,             \* local of process_single_stock: <<>> or <<Stock>>
    stock_id,          \* local of process_single_stock: 0 is None
    results,           \* results["success"], results["failed"]
    outcome,           \* per processed position: "true", "false" or "raise"
    loads,             \* per processed position: the load_* calls made, in order
    \* storage
    stocks,            \* rows of table stocks
    prices,            \* rows of table prices
    fundamentals,      \* rows of table fundamentals
    stock_seq,         \* last value of the stocks.id sequence
    \* history of the calls made
    requested,         \* argument n of the last acquire(n): 0 before any call
    streak,            \* stand-alone bucket: acquire(1) calls made back to back since
                       \* construction with no time elapsed; -1 once that run is over
    permits_unused,    \* permits debited by the fetcher so far minus remote calls issued
    extracts,          \* per processed position: the fetcher functions invoked, in order
    \* threads sharing one bucket
    tpc,               \* per thread: where it is inside acquire(1)
    tlocal,            \* per thread: the value it last read or computed and not yet stored
    sess               \* per thread: its own Session inside load_stock: where it is (pc),
                       \* the Stock it was given, the id its query found, the id returned

bucket_vars == <<max_tokens, refill_rate, tokens, time_elapsed, acquired>>
fetch_vars == <<fpc, function, attempt, response, result, calls, sleeps, plain_only, fetches>>
run_vars == <<symbols, idx, rpc, ppc, company_data, quote_data, stock, stock_id,
              results, outcome, loads>>
db_vars == <<stocks, prices, fundamentals, stock_seq>>
hist_vars == <<requested, streak, permits_unused, extracts>>
thread_vars == <<tpc, tlocal, sess>>
vars == <<bucket_vars, fetch_vars, run_vars, db_vars, hist_vars, thread_vars>>

----------------------------------------------------------------------------
\* Bounds of the model

MaxCapacity == 3      \* capacities tried for a stand-alone bucket: 1..MaxCapacity
MaxN == 4             \* acquire(n) is tried for n in 1..MaxN
MaxElapsed == 30      \* a stand-alone bucket idles at most this many ticks between calls
MaxFetches == 2       \* stand-alone fetcher: invocations of _make_request
MaxThreads == 2       \* threads calling acquire(1) on one bucket
MaxBatch == 2         \* length of the batch handed to run

----------------------------------------------------------------------------
\* Units and program constants

TicksPerSecond == 2                 \* one tick is the 0.5 s of time.sleep(0.5)
PollSleep == 1                      \* time.sleep(0.5), in ticks
RateNum == 5                        \* refill_rate = 5/60
RateDen == 60
TokenScale == (RateDen * TicksPerSecond) \div RateNum   \* token units per token
FetcherMaxTokens == 5               \* max_tokens=5
FetcherRefillRate == (RateNum * TokenScale) \div (RateDen * TicksPerSecond)
max_retries == 5
base_delay == 1                     \* seconds
ForcedCooldown == 60                \* time.sleep(60), seconds
RequestTimeout == 10                \* timeout=10, seconds

Seconds(s) == s * TicksPerSecond

Min(a, b) == IF a <= b THEN a ELSE b

RECURSIVE Pow2(_)
Pow2(k) == IF k = 0 THEN 1 ELSE 2 * Pow2(k - 1)

----------------------------------------------------------------------------
\* rate_limiter.py

\* _refill without the min() of line 46
refill_unclamped(tok, el) == tok + el * refill_rate

\* _refill adding the new tokens twice
refill_twice(tok, el) == Min(max_tokens * TokenScale, tok + 2 * el * refill_rate)

\* _refill that adds nothing
refill_none(tok, el) == tok

\* _refill: the token level after refilling tok for el ticks
refill(tok, el) == Min(max_tokens * TokenScale, tok + el * refill_rate)

\* acquire that wants more than n tokens in the bucket
enough_strict(tok, n) == tok > n * TokenScale

\* acquire(n): the test of line 65 on the refilled level
enough(tok, n) == tok >= n * TokenScale

\* acquire that takes one token whatever n is
take_one(tok, n) == IF enough(tok, n) THEN tok - TokenScale ELSE tok

\* acquire(n): the token level it leaves
take(tok, n) == IF enough(tok, n) THEN tok - n * TokenScale ELSE tok

\* acquire(n) as a whole: refill (last_refill_time := now), compare, subtract
acquire(n) ==
    LET refilled == refill(tokens, time_elapsed) IN
    [tokens |-> take(refilled, n), ok |-> enough(refilled, n)]

Bool(b) == IF b THEN "true" ELSE "false"

\* time passes for d ticks (time.sleep, a blocking call)
sleep(d) == time_elapsed + d

----------------------------------------------------------------------------
\* Initial values of the three frames

NoResponse == [exc |-> "none", status |-> 0, error |-> FALSE, note |-> FALSE]

FetchIdle ==
    /\ fpc = "idle"
    /\ function = "none"
    /\ attempt = 0
    /\ response = NoResponse
    /\ result = <<>>
    /\ calls = 0
    /\ sleeps = <<>>
    /\ plain_only = TRUE
    /\ fetches = 0

RunIdle ==
    /\ symbols = <<>>
    /\ idx = 1
    /\ rpc = "idle"
    /\ ppc = "idle"
    /\ company_data = <<>>
    /\ quote_data = <<>>
    /\ stock = <<>>
    /\ stock_id = 0
    /\ results = [success |-> <<>>, failed |-> <<>>]
    /\ outcome = <<>>
    /\ loads = <<>>

DbEmpty ==
    /\ stocks = {}
    /\ prices = <<>>
    /\ fundamentals = <<>>
    /\ stock_seq = 0

HistIdle ==
    /\ requested = 0
    /\ streak = 0
    /\ permits_unused = 0
    /\ extracts = <<>>

Threads == 1..MaxThreads

\* no thread is inside acquire
ThreadsIdle ==
    /\ tpc = [t \in Threads |-> "idle"]
    /\ tlocal = [t \in Threads |-> 0]
    /\ sess = [t \in Threads |-> [pc |-> "idle", stock |-> <<>>, found |-> 0, id |-> 0]]

\* TokenBucketRateLimiter.__init__
BucketInit(cap, rate) ==
    /\ max_tokens = cap
    /\ refill_rate = rate
    /\ tokens = cap * TokenScale
    /\ time_elapsed = 0
    /\ acquired = "none"

----------------------------------------------------------------------------
\* Payloads of the remote API (JSON objects), one record shape for all of them:
\* a key the object lacks holds Missing.  price and volume are the keys
\* "05. price" and "06. volume" of the "Global Quote" sub-object.

Missing == "<missing>"

Payload(n, s, m, r, g, q, p, v) ==
    [Name |-> n, Sector |-> s, MarketCapitalization |-> m, RevenueTTM |-> r,
     GrossProfitTTM |-> g, GlobalQuote |-> q, price |-> p, volume |-> v]

Overview(n, s, m, r, g) == Payload(n, s, m, r, g, Missing, Missing, Missing)
Quote(p, v) == Payload(Missing, Missing, Missing, Missing, Missing, "present", p, v)
EmptyPayload == Overview(Missing, Missing, Missing, Missing, Missing)

OverviewPayloads ==
    { EmptyPayload,
      Overview("Apple Inc.", "Technology", "3000", "100", "40"),
      Overview("Apple Computer", Missing, Missing, "None", Missing),
      Overview(Missing, "Technology", "", Missing, Missing),
      Overview("Apple Inc.", "Technology", "None", "100", "40") }

QuotePayloads ==
    { EmptyPayload,
      Quote("150.00", "1000000"),
      Quote("150.00", "abc") }

Payloads(fn) == IF fn = "OVERVIEW" THEN OverviewPayloads ELSE QuotePayloads

----------------------------------------------------------------------------
\* fetcher.py

\* What requests.get / response.json() can produce.  exc "ValueError" is
\* response.json() failing on a 200 body in a requests release whose JSON error
\* is not a RequestException; where it is one, the outcome is "RequestException".
Responses ==
    {[exc |-> e, status |-> 0, error |-> FALSE, note |-> FALSE] :
        e \in {"Timeout", "RequestException"}}
    \cup {[exc |-> "ValueError", status |-> 200, error |-> FALSE, note |-> FALSE]}
    \cup {[exc |-> "none", status |-> s, error |-> FALSE, note |-> FALSE] : s \in {429, 500}}
    \cup {[exc |-> "none", status |-> 200, error |-> e, note |-> n] : e, n \in BOOLEAN}

\* a response with status 200 and a JSON body
Is200(r) == r.exc = "none" /\ r.status = 200

\* timeout, network error or a non-200 status
IsPlain(r) ==
    \/ r.exc \in {"Timeout", "RequestException"}
    \/ r.exc = "none" /\ r.status # 200

\* classify with the "Note" test placed before the "Error Message" test
classify_note_first(r) ==
    IF r.exc = "ValueError" THEN "raise"
    ELSE IF r.exc \in {"Timeout", "RequestException"} THEN "backoff"
    ELSE IF r.status = 200
         THEN IF r.note THEN "cooldown"
              ELSE IF r.error THEN "api_error"
              ELSE "success"
    ELSE "backoff"

\* classify with status 429 sent to the sleep of line 78
classify_429_cooldown(r) ==
    IF r.exc = "ValueError" THEN "raise"
    ELSE IF r.exc \in {"Timeout", "RequestException"} THEN "backoff"
    ELSE IF r.status = 200
         THEN IF r.error THEN "api_error"
              ELSE IF r.note THEN "cooldown"
              ELSE "success"
    ELSE IF r.status = 429 THEN "cooldown"
    ELSE "backoff"

\* classify without the "Note" test of line 75
classify_note_ignored(r) ==
    IF r.exc = "ValueError" THEN "raise"
    ELSE IF r.exc \in {"Timeout", "RequestException"} THEN "backoff"
    ELSE IF r.status = 200
         THEN IF r.error THEN "api_error" ELSE "success"
    ELSE "backoff"

\* lines 63-94: what the body of the loop does with the outcome of the call
classify(r) ==
    IF r.exc = "ValueError" THEN "raise"
    ELSE IF r.exc \in {"Timeout", "RequestException"} THEN "backoff"
    ELSE IF r.status = 200
         THEN IF r.error THEN "api_error"
              ELSE IF r.note THEN "cooldown"
              ELSE "success"
    ELSE "backoff"

\* line 102 with a linear schedule
backoff_delay_linear(a) == base_delay * (a + 1)

\* line 102
backoff_delay(a) == base_delay * Pow2(a)

\* a retry loop in which the cooldown of line 78 does not use up an attempt
next_attempt_cooldown_free(a, cls) == IF cls = "cooldown" THEN a ELSE a + 1

\* the loop variable after an iteration that did not return
next_attempt(a, cls) == a + 1

\* a loop that skips the backoff sleep once no attempt is left
sleep_of_unless_last(cls, a) ==
    IF cls = "cooldown" THEN <<[kind |-> "cooldown", delay |-> Seconds(ForcedCooldown)]>>
    ELSE IF cls = "backoff" /\ a < max_retries - 1
         THEN <<[kind |-> "backoff", delay |-> Seconds(backoff_delay(a))]>>
    ELSE <<>>

\* lines 78 and 104: the sleep that ends an iteration, <<>> when it has none
sleep_of(cls, a) ==
    IF cls = "cooldown" THEN <<[kind |-> "cooldown", delay |-> Seconds(ForcedCooldown)]>>
    ELSE IF cls = "backoff" THEN <<[kind |-> "backoff", delay |-> Seconds(backoff_delay(a))]>>
    ELSE <<>>

Returned == {"returned_data", "returned_error", "returned_exhausted", "raised"}

\* entry of _make_request(params), lines 52-58
start_request(fn) ==
    /\ fpc' = "acquire"
    /\ function' = fn
    /\ attempt' = 0
    /\ response' = NoResponse
    /\ result' = <<>>
    /\ calls' = 0
    /\ sleeps' = <<>>
    /\ plain_only' = TRUE

\* lines 60-61: one turn of the wait for the limiter
WaitForLimiter ==
    /\ fpc = "acquire"
    /\ tokens' = acquire(1).tokens
    /\ acquired' = Bool(acquire(1).ok)
    /\ IF acquire(1).ok
       THEN time_elapsed' = 0 /\ fpc' = "request"
       ELSE time_elapsed' = PollSleep /\ fpc' = "acquire"
    /\ UNCHANGED <<max_tokens, refill_rate>>
    /\ requested' = 1
    /\ permits_unused' = IF acquire(1).ok THEN permits_unused + 1 ELSE permits_unused
    /\ UNCHANGED <<function, attempt, response, result, calls, sleeps, plain_only, fetches>>
    /\ UNCHANGED <<run_vars, db_vars, streak, extracts>>
    /\ UNCHANGED thread_vars

\* a loop that asks the limiter once, before its first iteration only
loop_top_after_wait == "request"

\* lines 58-61: every iteration of the for loop starts with the limiter wait
loop_top == "acquire"

\* lines 63-104: the remote call, its classification, the sleep that follows
\* and the step of the loop
Request(r, d) ==
    /\ fpc = "request"
    /\ LET cls == classify(r)
           slept == sleep_of(cls, attempt)
           busy == IF r.exc = "Timeout" THEN Seconds(RequestTimeout) ELSE 0
           retry == cls \in {"backoff", "cooldown"}
       IN
       /\ response' = r
       /\ calls' = calls + 1
       /\ plain_only' = (plain_only /\ IsPlain(r))
       /\ sleeps' = sleeps \o slept
       /\ time_elapsed' = sleep(busy + (IF slept = <<>> THEN 0 ELSE slept[1].delay))
       /\ attempt' = IF retry THEN next_attempt(attempt, cls) ELSE attempt
       /\ result' = IF cls = "success" THEN <<d>> ELSE <<>>
       /\ fpc' = CASE cls = "success" -> "returned_data"
                   [] cls = "api_error" -> "returned_error"
                   [] cls = "raise" -> "raised"
                   [] OTHER -> IF next_attempt(attempt, cls) < max_retries
                               THEN loop_top ELSE "returned_exhausted"
    /\ UNCHANGED <<max_tokens, refill_rate, tokens, acquired>>
    /\ permits_unused' = permits_unused - 1
    /\ UNCHANGED <<function, fetches>>
    /\ UNCHANGED <<run_vars, db_vars, requested, streak, extracts>>
    /\ UNCHANGED thread_vars

\* the payloads a call classified cls can hand back
Bodies(cls) == IF cls = "success" THEN Payloads(function) ELSE {EmptyPayload}

RequestAny ==
    \E r \in Responses : \E d \in Bodies(classify(r)) : Request(r, d)

----------------------------------------------------------------------------
\* Stand-alone fetcher: a caller invokes _make_request up to MaxFetches times
\* on one StockFetcher (one bucket, built by StockFetcher.__init__)

Invoke(fn) ==
    /\ fpc \in Returned \cup {"idle"}
    /\ fetches < MaxFetches
    /\ fetches' = fetches + 1
    /\ start_request(fn)
    /\ UNCHANGED <<bucket_vars, run_vars, db_vars, hist_vars>>
    /\ UNCHANGED thread_vars

InitFetch ==
    /\ BucketInit(FetcherMaxTokens, FetcherRefillRate)
    /\ FetchIdle /\ RunIdle /\ DbEmpty /\ HistIdle /\ ThreadsIdle

NextFetch ==
    \/ \E fn \in {"OVERVIEW", "GLOBAL_QUOTE"} : Invoke(fn)
    \/ WaitForLimiter
    \/ RequestAny

SpecFetch == InitFetch /\ [][NextFetch]_vars

\* _make_request runs on: the thread that called it is not stopped, time.sleep
\* returns and requests.get returns or raises within its timeout (line 64)
SpecFetchFair == SpecFetch /\ WF_vars(WaitForLimiter) /\ WF_vars(RequestAny)

----------------------------------------------------------------------------
\* Stand-alone bucket: any capacity, any rate, any acquire(n), any idle time

Rates == {0, 1, 5, TokenScale}

BucketAcquire(n) ==
    /\ tokens' = acquire(n).tokens
    /\ acquired' = Bool(acquire(n).ok)
    /\ time_elapsed' = 0
    /\ requested' = n
    /\ streak' = IF streak >= 0 /\ streak <= max_tokens /\ n = 1 /\ time_elapsed = 0
                 THEN streak + 1 ELSE -1
    /\ UNCHANGED <<max_tokens, refill_rate>>
    /\ UNCHANGED <<fetch_vars, run_vars, db_vars, permits_unused, extracts>>
    /\ UNCHANGED thread_vars

BucketIdle(d) ==
    /\ time_elapsed + d <= MaxElapsed
    /\ time_elapsed' = sleep(d)
    /\ streak' = -1
    /\ UNCHANGED <<max_tokens, refill_rate, tokens, acquired>>
    /\ UNCHANGED <<fetch_vars, run_vars, db_vars, requested, permits_unused, extracts>>
    /\ UNCHANGED thread_vars

InitBucket ==
    /\ \E cap \in 1..MaxCapacity, rate \in Rates : BucketInit(cap, rate)
    /\ FetchIdle /\ RunIdle /\ DbEmpty /\ HistIdle /\ ThreadsIdle

NextBucket ==
    \/ \E n \in 1..MaxN : BucketAcquire(n)
    \/ \E d \in {1, 3, 10} : BucketIdle(d)

SpecBucket == InitBucket /\ [][NextBucket]_vars

\* the stand-alone bucket called with any integer n: acquire does not look at
\* the sign of its argument (lines 51-69)
NextBucketAny ==
    \/ \E n \in (0 - MaxN)..MaxN : BucketAcquire(n)
    \/ \E d \in {1, 3, 10} : BucketIdle(d)

SpecBucketAny == InitBucket /\ [][NextBucketAny]_vars

----------------------------------------------------------------------------
\* Threads sharing one bucket: each thread of Threads calls acquire(1) once, no
\* time passes.  The class holds no lock, so another thread may run between any
\* two reads or writes of self.tokens; the steps below are those reads and
\* writes, in the order of lines 63-69 and 39-49.

\* acquire(1) is entered, line 63 calls _refill
ThreadCall(t) ==
    /\ tpc[t] = "idle"
    /\ tpc' = [tpc EXCEPT ![t] = "refill_read"]
    /\ requested' = 1
    /\ UNCHANGED <<bucket_vars, tlocal, streak, permits_unused, extracts>>
    /\ UNCHANGED <<fetch_vars, run_vars, db_vars>>
    /\ UNCHANGED sess

\* _refill, lines 39-46: the right-hand side of line 46 is computed
ThreadRefillRead(t) ==
    /\ tpc[t] = "refill_read"
    /\ tlocal' = [tlocal EXCEPT ![t] = refill(tokens, time_elapsed)]
    /\ tpc' = [tpc EXCEPT ![t] = "refill_write"]
    /\ UNCHANGED <<bucket_vars, hist_vars>>
    /\ UNCHANGED <<fetch_vars, run_vars, db_vars>>
    /\ UNCHANGED sess

\* _refill, lines 46-49: self.tokens and last_refill_time are stored
ThreadRefillWrite(t) ==
    /\ tpc[t] = "refill_write"
    /\ tokens' = tlocal[t]
    /\ time_elapsed' = 0
    /\ tpc' = [tpc EXCEPT ![t] = "test"]
    /\ UNCHANGED <<max_tokens, refill_rate, acquired, tlocal, hist_vars>>
    /\ UNCHANGED <<fetch_vars, run_vars, db_vars>>
    /\ UNCHANGED sess

\* line 65, and the return False of line 69
ThreadTest(t) ==
    /\ tpc[t] = "test"
    /\ IF enough(tokens, 1)
       THEN tpc' = [tpc EXCEPT ![t] = "take_read"] /\ UNCHANGED acquired
       ELSE tpc' = [tpc EXCEPT ![t] = "returned_false"] /\ acquired' = Bool(FALSE)
    /\ UNCHANGED <<max_tokens, refill_rate, tokens, time_elapsed, tlocal, hist_vars>>
    /\ UNCHANGED <<fetch_vars, run_vars, db_vars>>
    /\ UNCHANGED sess

\* line 66: self.tokens is read
ThreadTakeRead(t) ==
    /\ tpc[t] = "take_read"
    /\ tlocal' = [tlocal EXCEPT ![t] = tokens]
    /\ tpc' = [tpc EXCEPT ![t] = "take_write"]
    /\ UNCHANGED <<bucket_vars, hist_vars>>
    /\ UNCHANGED <<fetch_vars, run_vars, db_vars>>
    /\ UNCHANGED sess

\* line 66: the difference is stored, and the return True of line 67
ThreadTakeWrite(t) ==
    /\ tpc[t] = "take_write"
    /\ tokens' = tlocal[t] - 1 * TokenScale
    /\ acquired' = Bool(TRUE)
    /\ tpc' = [tpc EXCEPT ![t] = "returned_true"]
    /\ UNCHANGED <<max_tokens, refill_rate, time_elapsed, tlocal, hist_vars>>
    /\ UNCHANGED <<fetch_vars, run_vars, db_vars>>
    /\ UNCHANGED sess

InitThreads == InitBucket

NextThreads ==
    \/ \E t \in Threads : ThreadCall(t)
    \/ \E t \in Threads : ThreadRefillRead(t)
    \/ \E t \in Threads : ThreadRefillWrite(t)
    \/ \E t \in Threads : ThreadTest(t)
    \/ \E t \in Threads : ThreadTakeRead(t)
    \/ \E t \in Threads : ThreadTakeWrite(t)

SpecThreads == InitThreads /\ [][NextThreads]_vars

----------------------------------------------------------------------------
\* pipeline.py: transforms

\* Python's int(str) and float(str) on the strings the payloads use; float
\* values are kept in hundredths.  A string outside the table raises ValueError.
IsIntLiteral(x) == x \in {"0", "40", "100", "3000", "1000000"}
IntOf(x) ==
    CASE x = "0" -> 0 [] x = "40" -> 40 [] x = "100" -> 100
      [] x = "3000" -> 3000 [] x = "1000000" -> 1000000
IsFloatLiteral(x) == IsIntLiteral(x) \/ x = "150.00"
FloatOf(x) == IF x = "150.00" THEN 15000 ELSE 100 * IntOf(x)

Null == "<null>"
Today == "today"                 \* datetime.now().date()
ThisQuarter == "this-quarter"    \* f"{year}-Q{n}" of datetime.now()

\* dict.get(key, default) on a payload field
Get(field, default) == IF field = Missing THEN default ELSE field

\* "not data": None or the empty object
Falsy(data) == data = <<>> \/ data[1] = EmptyPayload

\* str.upper() on the symbols of the model
upper(sym) == IF sym = "aapl" THEN "AAPL" ELSE sym

\* transform_stock, lines 84-100: <<>> is None
transform_stock(symbol, data) ==
    IF Falsy(data) THEN <<>>
    ELSE LET market_cap_str == Get(data[1].MarketCapitalization, "0") IN
         IF market_cap_str # "" /\ ~IsIntLiteral(market_cap_str) THEN <<>>
         ELSE <<[ticker |-> symbol,
                 name |-> Get(data[1].Name, symbol),
                 sector |-> Get(data[1].Sector, Null),
                 market_cap |-> IF market_cap_str = "" THEN <<>>
                                ELSE <<IntOf(market_cap_str)>>]>>

\* transform_price, lines 113-130 (open, high, low are read like close)
transform_price(id, data) ==
    IF Falsy(data) \/ data[1].GlobalQuote = Missing THEN <<>>
    ELSE LET close == Get(data[1].price, "0")
             volume == Get(data[1].volume, "0") IN
         IF ~IsFloatLiteral(close) \/ ~IsIntLiteral(volume) THEN <<>>
         ELSE <<[stock_id |-> id, date |-> Today,
                 close |-> FloatOf(close), volume |-> IntOf(volume)]>>

\* int(data.get(key, 0) or 0), lines 157-158
IntOrZero(field) == IF field = Missing \/ field = "" THEN "0" ELSE field

\* transform_fundamental, lines 143-166 (eps, pe_ratio, debt_to_equity come
\* from safe_float, which never raises)
transform_fundamental(id, data) ==
    IF Falsy(data) THEN <<>>
    ELSE LET revenue == IntOrZero(data[1].RevenueTTM)
             net_income == IntOrZero(data[1].GrossProfitTTM) IN
         IF ~IsIntLiteral(revenue) \/ ~IsIntLiteral(net_income) THEN <<>>
         ELSE <<[stock_id |-> id, quarter |-> ThisQuarter,
                 revenue |-> IntOf(revenue), net_income |-> IntOf(net_income)]>>

----------------------------------------------------------------------------
\* pipeline.py: loads.  commit_ok is whether session.commit() succeeds; when it
\* raises, the except branch rolls back and the tables are as before.

\* line 185: the rows filter_by(ticker=...) matches
lookup(ticker) == {r \in stocks : r.ticker = ticker}

\* lines 189-191 without the assignment of market_cap
updated_without_market_cap(e, st) == [e EXCEPT !.name = st.name, !.sector = st.sector]

\* lines 189-191: the existing row after the assignments
updated(e, st) ==
    [e EXCEPT !.name = st.name, !.sector = st.sector, !.market_cap = st.market_cap]

\* models.py line 12: unique=True on stocks.ticker
unique_ticker(tbl) == \A a, b \in tbl : a.ticker = b.ticker => a = b

\* load_stock, lines 183-203: [stocks, seq, id] with id = 0 for None
load_stock(st, commit_ok) ==
    LET found == lookup(st.ticker)
        unchanged == [stocks |-> stocks, seq |-> stock_seq, id |-> 0]
    IN  IF found # {}
        THEN LET e == CHOOSE r \in found : TRUE
                 tbl == (stocks \ {e}) \cup {updated(e, st)} IN
             IF commit_ok /\ unique_ticker(tbl)
             THEN [stocks |-> tbl, seq |-> stock_seq, id |-> e.id]
             ELSE unchanged
        ELSE LET row == [id |-> stock_seq + 1, ticker |-> st.ticker, name |-> st.name,
                         sector |-> st.sector, market_cap |-> st.market_cap]
                 tbl == stocks \cup {row} IN
             IF commit_ok /\ unique_ticker(tbl)
             THEN [stocks |-> tbl, seq |-> stock_seq + 1, id |-> row.id]
             ELSE unchanged

\* load_price that keeps one row per (stock_id, date)
load_price_dedup(price, commit_ok) ==
    IF commit_ok /\ ~\E k \in 1..Len(prices) :
                        prices[k].stock_id = price.stock_id /\ prices[k].date = price.date
    THEN Append(prices, price) ELSE prices

\* load_price, lines 218-225: the table after the call
load_price(price, commit_ok) == IF commit_ok THEN Append(prices, price) ELSE prices

\* load_fundamental, lines 240-247: the table after the call
load_fundamental(fundamental, commit_ok) ==
    IF commit_ok THEN Append(fundamentals, fundamental) ELSE fundamentals

----------------------------------------------------------------------------
\* Sessions sharing one store: each thread of Threads runs load_stock once, in
\* a Session of its own (line 262), on the Stock it was given.  The query of
\* line 185 and the commit of line 192 or 197 are separate statements sent to
\* the database: another session may commit between them.  Here a commit fails
\* only on the unique constraint of stocks.ticker.

\* the Stock objects transform_stock can hand over
StockArgs ==
    {transform_stock(sym, <<d>>)[1] :
        sym \in {"AAPL", "MSFT"},
        d \in {Overview("Apple Inc.", "Technology", "3000", "100", "40"),
                Overview("Apple Computer", Missing, Missing, "None", Missing)}}

\* lines 192, 197: the commit goes through (models.py line 12: unique=True)
commit_accepts(tbl) == unique_ticker(tbl)

\* load_stock is entered, line 183
SessionCall(t, st) ==
    /\ sess[t].pc = "idle"
    /\ sess' = [sess EXCEPT ![t] = [@ EXCEPT !.pc = "query", !.stock = <<st>>]]
    /\ UNCHANGED <<tpc, tlocal>>
    /\ UNCHANGED <<bucket_vars, fetch_vars, run_vars, db_vars, hist_vars>>

\* line 185: session.query(Stock).filter_by(ticker=...).first()
SessionQuery(t) ==
    /\ sess[t].pc = "query"
    /\ LET found == lookup(sess[t].stock[1].ticker) IN
       sess' = [sess EXCEPT ![t] =
                   [@ EXCEPT !.pc = "write",
                             !.found = IF found = {} THEN 0
                                       ELSE (CHOOSE r \in found : TRUE).id]]
    /\ UNCHANGED <<tpc, tlocal>>
    /\ UNCHANGED <<bucket_vars, fetch_vars, run_vars, db_vars, hist_vars>>

\* lines 187-203: update or insert, commit, and the id returned (0 is None)
SessionWrite(t) ==
    /\ sess[t].pc = "write"
    /\ LET st == sess[t].stock[1]
           e == CHOOSE r \in stocks : r.id = sess[t].found
           row == [id |-> stock_seq + 1, ticker |-> st.ticker, name |-> st.name,
                   sector |-> st.sector, market_cap |-> st.market_cap]
           tbl == IF sess[t].found # 0
                  THEN (stocks \ {e}) \cup {updated(e, st)}
                  ELSE stocks \cup {row}
           id == IF sess[t].found # 0 THEN sess[t].found ELSE row.id
       IN
       IF commit_accepts(tbl)
       THEN /\ stocks' = tbl
            /\ stock_seq' = IF sess[t].found # 0 THEN stock_seq ELSE stock_seq + 1
            /\ sess' = [sess EXCEPT ![t] = [@ EXCEPT !.pc = "returned", !.id = id]]
       ELSE /\ UNCHANGED <<stocks, stock_seq>>
            /\ sess' = [sess EXCEPT ![t] = [@ EXCEPT !.pc = "returned", !.id = 0]]
    /\ UNCHANGED <<prices, fundamentals>>
    /\ UNCHANGED <<tpc, tlocal>>
    /\ UNCHANGED <<bucket_vars, fetch_vars, run_vars, hist_vars>>

InitSessions ==
    /\ BucketInit(FetcherMaxTokens, FetcherRefillRate)
    /\ FetchIdle /\ RunIdle /\ DbEmpty /\ HistIdle /\ ThreadsIdle

NextSessions ==
    \/ \E t \in Threads : \E st \in StockArgs : SessionCall(t, st)
    \/ \E t \in Threads : SessionQuery(t)
    \/ \E t \in Threads : SessionWrite(t)

SpecSessions == InitSessions /\ [][NextSessions]_vars

----------------------------------------------------------------------------
\* pipeline.py: process_single_stock and run

Symbols == {"aapl", "MSFT"}

Batches == UNION {[1..n -> Symbols] : n \in 0..MaxBatch}

\* process_single_stock without the test of line 277
has_id_unchecked(id) == TRUE

\* line 277: "if not stock_id" is false
has_id(id) == id # 0

\* process_single_stock giving up on the symbol when load_price returns False
after_price_fatal(called, ok) == IF called /\ ~ok THEN "return_false" ELSE "fundamental"

\* line 283: load_price's return value is not looked at
after_price(called, ok) == "fundamental"

\* run without the except clause of line 315
run_rethrows(o) == FALSE

\* line 315: "except Exception" catches what process_single_stock raises
run_catches(o) == TRUE

\* the frame of _make_request is gone once it has returned
pop_request ==
    /\ fpc' = "idle"
    /\ function' = "none"
    /\ attempt' = 0
    /\ response' = NoResponse
    /\ result' = <<>>
    /\ calls' = 0
    /\ sleeps' = <<>>
    /\ plain_only' = TRUE
    /\ UNCHANGED fetches

Logged(entry) == [loads EXCEPT ![idx] = Append(@, entry)]

\* process_single_stock ends with o ("true", "false" or "raise") and run,
\* lines 310-317, files the symbol and moves on
finish(o) ==
    /\ ppc' = "idle"
    /\ outcome' = Append(outcome, o)
    /\ company_data' = <<>>
    /\ quote_data' = <<>>
    /\ stock' = <<>>
    /\ stock_id' = 0
    /\ IF o = "raise" /\ ~run_catches(o)
       THEN rpc' = "aborted" /\ UNCHANGED <<results, idx>>
       ELSE /\ results' = IF o = "true"
                          THEN [results EXCEPT !.success = Append(@, symbols[idx])]
                          ELSE [results EXCEPT !.failed = Append(@, symbols[idx])]
            /\ idx' = idx + 1
            /\ UNCHANGED rpc
    /\ UNCHANGED symbols

\* lines 309-311, 261-266: the loop takes the next symbol, process_single_stock
\* opens its session and asks for the company overview
ProcessStart ==
    /\ rpc = "loop" /\ ppc = "idle" /\ idx <= Len(symbols)
    /\ ppc' = "extract_info"
    /\ loads' = Append(loads, <<>>)
    /\ extracts' = Append(extracts, <<"OVERVIEW">>)
    /\ start_request("OVERVIEW")
    /\ UNCHANGED <<fetches, requested, streak, permits_unused>>
    /\ UNCHANGED <<symbols, idx, rpc, company_data, quote_data, stock, stock_id,
                   results, outcome>>
    /\ UNCHANGED <<bucket_vars, db_vars>>
    /\ UNCHANGED thread_vars

\* lines 266-267: the overview call has returned; the quote call starts
ExtractInfoDone ==
    /\ ppc = "extract_info" /\ fpc \in Returned \ {"raised"}
    /\ company_data' = result
    /\ ppc' = "extract_quote"
    /\ extracts' = [extracts EXCEPT ![idx] = Append(@, "GLOBAL_QUOTE")]
    /\ start_request("GLOBAL_QUOTE")
    /\ UNCHANGED <<fetches, requested, streak, permits_unused>>
    /\ UNCHANGED <<symbols, idx, rpc, quote_data, stock, stock_id, results, outcome, loads>>
    /\ UNCHANGED <<bucket_vars, db_vars>>
    /\ UNCHANGED thread_vars

\* line 267: the quote call has returned
ExtractQuoteDone ==
    /\ ppc = "extract_quote" /\ fpc \in Returned \ {"raised"}
    /\ quote_data' = result
    /\ ppc' = "transform"
    /\ pop_request
    /\ UNCHANGED <<symbols, idx, rpc, company_data, stock, stock_id, results, outcome, loads>>
    /\ UNCHANGED <<bucket_vars, db_vars>>
    /\ UNCHANGED hist_vars
    /\ UNCHANGED thread_vars

\* an exception of _make_request leaves process_single_stock and reaches run
ExtractRaises ==
    /\ ppc \in {"extract_info", "extract_quote"} /\ fpc = "raised"
    /\ finish("raise")
    /\ pop_request
    /\ UNCHANGED loads
    /\ UNCHANGED <<bucket_vars, db_vars>>
    /\ UNCHANGED hist_vars
    /\ UNCHANGED thread_vars

\* process_single_stock without the test of line 271
no_stock_unchecked(st) == FALSE

\* line 271: "if not stock" is true
no_stock(st) == st = <<>>

\* lines 270-273
TransformStock ==
    /\ ppc = "transform"
    /\ LET st == transform_stock(upper(symbols[idx]), company_data) IN
       IF no_stock(st)
       THEN finish("false")
       ELSE /\ stock' = st
            /\ ppc' = "load_stock"
            /\ UNCHANGED <<symbols, idx, rpc, company_data, quote_data, stock_id,
                           results, outcome>>
    /\ UNCHANGED loads
    /\ UNCHANGED <<bucket_vars, fetch_vars, db_vars>>
    /\ UNCHANGED hist_vars
    /\ UNCHANGED thread_vars

\* lines 276-278
LoadStock(commit_ok) ==
    /\ ppc = "load_stock"
    /\ LET found == lookup(stock[1].ticker)
           done == load_stock(stock[1], commit_ok)
           entry == [op |-> "stock", called |-> TRUE, ok |-> done.id # 0, id |-> done.id,
                     found |-> IF found = {} THEN 0 ELSE (CHOOSE r \in found : TRUE).id,
                     changed |-> \E r \in found : updated(r, stock[1]) # r]
       IN
       /\ stocks' = done.stocks
       /\ stock_seq' = done.seq
       /\ loads' = Logged(entry)
       /\ IF has_id(done.id)
          THEN /\ stock_id' = done.id
               /\ ppc' = "price"
               /\ UNCHANGED <<symbols, idx, rpc, company_data, quote_data, stock,
                              results, outcome>>
          ELSE finish("false")
    /\ UNCHANGED <<prices, fundamentals>>
    /\ UNCHANGED <<bucket_vars, fetch_vars>>
    /\ UNCHANGED hist_vars
    /\ UNCHANGED thread_vars

\* lines 281-283
LoadPrice(commit_ok) ==
    /\ ppc = "price"
    /\ LET price == transform_price(stock_id, quote_data)
           called == price # <<>>
           ok == called /\ commit_ok
       IN
       /\ called \/ commit_ok
       /\ prices' = IF called THEN load_price(price[1], commit_ok) ELSE prices
       /\ loads' = Logged([op |-> "price", called |-> called, ok |-> ok, id |-> stock_id,
                           found |-> 0, changed |-> FALSE])
       /\ IF after_price(called, ok) = "fundamental"
          THEN /\ ppc' = "fundamental"
               /\ UNCHANGED <<symbols, idx, rpc, company_data, quote_data, stock, stock_id,
                              results, outcome>>
          ELSE finish("false")
    /\ UNCHANGED <<stocks, fundamentals, stock_seq>>
    /\ UNCHANGED <<bucket_vars, fetch_vars>>
    /\ UNCHANGED hist_vars
    /\ UNCHANGED thread_vars

\* lines 286-291
LoadFundamental(commit_ok) ==
    /\ ppc = "fundamental"
    /\ LET fundamental == transform_fundamental(stock_id, company_data)
           called == fundamental # <<>>
           ok == called /\ commit_ok
       IN
       /\ called \/ commit_ok
       /\ fundamentals' = IF called THEN load_fundamental(fundamental[1], commit_ok)
                          ELSE fundamentals
       /\ loads' = Logged([op |-> "fundamental", called |-> called, ok |-> ok,
                           id |-> stock_id, found |-> 0, changed |-> FALSE])
    /\ finish("true")
    /\ UNCHANGED <<stocks, prices, stock_seq>>
    /\ UNCHANGED <<bucket_vars, fetch_vars>>
    /\ UNCHANGED hist_vars
    /\ UNCHANGED thread_vars

\* lines 319-325
RunReturn ==
    /\ rpc = "loop" /\ ppc = "idle" /\ idx > Len(symbols)
    /\ rpc' = "returned"
    /\ UNCHANGED <<symbols, idx, ppc, company_data, quote_data, stock, stock_id,
                   results, outcome, loads>>
    /\ UNCHANGED <<bucket_vars, fetch_vars, db_vars>>
    /\ UNCHANGED hist_vars
    /\ UNCHANGED thread_vars

\* The remote outcomes a batch run is checked against: one for each way
\* _make_request can end (payload, API error, exception) and the throttle
\* notice, which retries up to exhaustion.  Transport faults and non-200
\* statuses are exercised by SpecFetch.
RunResponses == {r \in Responses : r.exc = "ValueError" \/ (Is200(r) /\ ~(r.error /\ r.note))}

\* The payloads a batch run is checked against: every payload of the call but
\* the overview whose "MarketCapitalization" is the empty string (it takes the
\* same path through process_single_stock as the overview without the field).
RunBodies(cls) == Bodies(cls) \ {Overview(Missing, "Technology", "", Missing, Missing)}

RequestInRun ==
    \E r \in RunResponses : \E d \in RunBodies(classify(r)) : Request(r, d)

\* StockDataPipeline() on an empty store, then run(batch)
Init ==
    /\ BucketInit(FetcherMaxTokens, FetcherRefillRate)
    /\ FetchIdle /\ DbEmpty /\ HistIdle /\ ThreadsIdle
    /\ symbols \in Batches
    /\ idx = 1
    /\ rpc = "loop"
    /\ ppc = "idle"
    /\ company_data = <<>>
    /\ quote_data = <<>>
    /\ stock = <<>>
    /\ stock_id = 0
    /\ results = [success |-> <<>>, failed |-> <<>>]
    /\ outcome = <<>>
    /\ loads = <<>>

Next ==
    \/ ProcessStart
    \/ WaitForLimiter
    \/ RequestInRun
    \/ ExtractInfoDone
    \/ ExtractQuoteDone
    \/ ExtractRaises
    \/ TransformStock
    \/ \E commit_ok \in BOOLEAN : LoadStock(commit_ok)
    \/ \E commit_ok \in BOOLEAN : LoadPrice(commit_ok)
    \/ \E commit_ok \in BOOLEAN : LoadFundamental(commit_ok)
    \/ RunReturn

Spec == Init /\ [][Next]_vars

----------------------------------------------------------------------------
\* Claims about the fetcher (checked under SpecFetch) and the bucket (SpecBucket)

LastSleep == sleeps[Len(sleeps)]

\* C1: one invocation of _make_request issues at most max_retries = 5 remote
\* calls, whatever the outcomes are; the wait for the limiter, the backoff
\* sleeps and the cooldowns issue none (at the top of the loop the number of
\* calls is the number of iterations done).
C1_AtMostMaxRetriesCalls ==
    /\ calls <= 5
    /\ fpc = "acquire" => calls = attempt

C1_Witness ==
    /\ fpc = "returned_exhausted"
    /\ calls = 5
    /\ \E i, j \in 1..Len(sleeps) : sleeps[i].kind = "cooldown" /\ sleeps[j].kind = "backoff"

\* C2: for capacity C >= 1 and refill rate >= 0, after any sequence of
\* acquire(n), n >= 1, with a clock that never goes back, 0 <= tokens <= C.
C2_TokensWithinCapacity ==
    /\ 0 <= tokens
    /\ tokens <= max_tokens * TokenScale

C2_Witness ==
    /\ acquired = "false"
    /\ refill_rate > 0
    /\ max_tokens > 1
    /\ tokens = max_tokens * TokenScale

\* C3: when every remote call of a fetch ends in a plain retryable failure, the
\* sleep after attempt i is base_delay * 2^i, and the fetch ends after exactly
\* 5 calls with the delays 1, 2, 4, 8, 16 seconds.
ExpectedDelays == <<1, 2, 4, 8, 16>>

C3_BackoffSchedule ==
    plain_only =>
        /\ Len(sleeps) = calls
        /\ calls <= Len(ExpectedDelays)
        /\ \A i \in 1..Len(sleeps) :
              sleeps[i] = [kind |-> "backoff", delay |-> Seconds(ExpectedDelays[i])]
        /\ (fpc \in Returned /\ calls > 0) =>
              (fpc = "returned_exhausted" /\ calls = 5 /\ result = <<>>)

C3_Witness ==
    /\ plain_only
    /\ fpc = "returned_exhausted"
    /\ Len(sleeps) = 5

\* C4: a 200 response whose body has the error field ends the fetch at once
\* with a failure: no sleep follows that call and no further call is issued,
\* at any attempt index.
C4_ErrorFieldIsTerminal ==
    (Is200(response) /\ response.error) =>
        /\ fpc = "returned_error"
        /\ result = <<>>
        /\ calls = attempt + 1
        /\ Len(sleeps) = attempt

C4_Witness ==
    /\ Is200(response) /\ response.error /\ response.note
    /\ fpc = "returned_error"
    /\ attempt = 3

\* C5 as claimed: after a 429 the fetcher waits the forced 60 s cooldown before
\* the next attempt.
C5_Original_429ForcesCooldown ==
    (response.exc = "none" /\ response.status = 429) =>
        /\ sleeps # <<>>
        /\ LastSleep = [kind |-> "cooldown", delay |-> Seconds(ForcedCooldown)]

\* C5 as amended: after a 429 at attempt i the fetcher waits the exponential
\* delay base_delay * 2^i, as after any other non-200 status, and not the
\* forced cooldown, before the next attempt.
C5_429UsesBackoff ==
    (response.exc = "none" /\ response.status = 429) =>
        /\ Len(sleeps) = calls
        /\ attempt = calls
        /\ LastSleep = [kind |-> "backoff", delay |-> Seconds(base_delay * Pow2(calls - 1))]
        /\ fpc \in {"acquire", "request", "returned_exhausted"}

C5_Witness ==
    /\ response.exc = "none" /\ response.status = 429
    /\ fpc = "request"
    /\ calls = 3
    /\ LastSleep.delay = Seconds(4)

\* C6: a 200 response whose body has the throttle notice and no error field is
\* retryable: the 60 s cooldown follows the call, then the next attempt is
\* issued if one remains; the fetch never ends on it with the payload or with
\* the API-error failure.
C6_NoteIsRetryableWithCooldown ==
    (Is200(response) /\ response.note /\ ~response.error) =>
        /\ Len(sleeps) = calls
        /\ LastSleep = [kind |-> "cooldown", delay |-> Seconds(60)]
        /\ attempt = calls
        /\ IF calls < 5
           THEN fpc \in {"acquire", "request"}
           ELSE fpc = "returned_exhausted" /\ result = <<>>

C6_Witness ==
    /\ Is200(response) /\ response.note /\ ~response.error
    /\ fpc = "request"
    /\ calls = 2

----------------------------------------------------------------------------
\* Claims about the pipeline (checked under Spec)

\* the symbols among the first n of the batch whose processing returned True
\* (want) or did not (~want), in batch order
RECURSIVE Filed(_, _)
Filed(n, want) ==
    IF n = 0 THEN <<>>
    ELSE IF (outcome[n] = "true") = want
         THEN Append(Filed(n - 1, want), symbols[n])
         ELSE Filed(n - 1, want)

Listed(sym, list) == \E j \in 1..Len(list) : list[j] = sym

\* C7: run never ends by an exception, whatever process_single_stock does for
\* any symbol (True, False, raise); every entry of the batch processed so far
\* is filed exactly once, in success if its own processing returned True and in
\* failed otherwise, whatever happened to the other entries; when run returns,
\* every entry of the batch has been filed.
C7_EverySymbolFiledOnce ==
    /\ rpc # "aborted"
    /\ Len(outcome) = idx - 1
    /\ results.success = Filed(Len(outcome), TRUE)
    /\ results.failed = Filed(Len(outcome), FALSE)
    /\ Len(results.success) + Len(results.failed) = Len(outcome)
    /\ rpc = "returned" => Len(outcome) = Len(symbols)

C7_Witness ==
    /\ rpc = "returned"
    /\ outcome = <<"raise", "true">>
    /\ symbols[1] # symbols[2]

\* C8: within one symbol a price or fundamental load is called only after the
\* entity load of that symbol has returned an id, and with that id; when the
\* entity load fails, no dependent load is ever called for the symbol and the
\* symbol is reported failed.
C8_EntityLoadPrecedesDependents ==
    \A i \in 1..Len(loads) :
        LET L == loads[i] IN
        /\ \A k \in 1..Len(L) :
              (L[k].op \in {"price", "fundamental"} /\ L[k].called) =>
                  /\ k > 1
                  /\ L[1].op = "stock" /\ L[1].ok /\ L[1].id # 0
                  /\ L[k].id = L[1].id
        /\ (L # <<>> /\ L[1].op = "stock" /\ ~L[1].ok) =>
              /\ Len(L) = 1
              /\ i <= Len(outcome)
              /\ outcome[i] = "false"
              /\ Listed(symbols[i], results.failed)

C8_Witness ==
    /\ rpc = "returned"
    /\ Len(loads) = 2
    /\ loads[1] # <<>> /\ ~loads[1][1].ok
    /\ Len(loads[2]) = 3 /\ loads[2][2].called /\ loads[2][3].called

\* C9: the store never holds two entity rows for one ticker; an upsert of a
\* ticker that is already stored returns the id of the existing row, and once
\* load_stock has returned an id the row with that id holds the ticker and the
\* name, sector and market cap just given.
C9_UpsertKeepsOneRowPerTicker ==
    /\ \A a, b \in stocks : (a.ticker = b.ticker \/ a.id = b.id) => a = b
    /\ \A i \in 1..Len(loads) : \A k \in 1..Len(loads[i]) :
          LET e == loads[i][k] IN
          (e.op = "stock" /\ e.found # 0) => (e.ok => e.id = e.found)
    /\ ppc = "price" =>
          \E r \in stocks :
              /\ r.id = stock_id
              /\ r.ticker = stock[1].ticker
              /\ r.name = stock[1].name
              /\ r.sector = stock[1].sector
              /\ r.market_cap = stock[1].market_cap

C9_Witness ==
    /\ ppc = "price"
    /\ idx = 2
    /\ symbols = <<"aapl", "aapl">>
    /\ stock[1].ticker = "AAPL"
    /\ loads[2][1].found # 0 /\ loads[2][1].changed /\ loads[2][1].ok
    /\ Cardinality(stocks) = 1

\* C10: once the entity load of a symbol has succeeded, a failing price load
\* or fundamental load does not fail the symbol: the steps of both dependent
\* loads are still taken, the entity row stays stored, and the symbol is
\* reported in the success list.
C10_DependentFailuresAreNotFatal ==
    \A i \in 1..Len(loads) :
        LET L == loads[i] IN
        (L # <<>> /\ L[1].ok) =>
            /\ \E r \in stocks : r.id = L[1].id
            /\ i > Len(outcome) => (idx = i /\ ppc \in {"price", "fundamental"})
            /\ Len(L) >= 2 => (L[2].op = "price" /\ (i > Len(outcome) => ppc = "fundamental"))
            /\ i <= Len(outcome) =>
                  /\ outcome[i] = "true"
                  /\ Len(L) = 3 /\ L[2].op = "price" /\ L[3].op = "fundamental"
                  /\ Listed(symbols[i], results.success)

C10_Witness ==
    /\ rpc = "returned"
    /\ \E i \in 1..Len(loads) :
          /\ Len(loads[i]) = 3
          /\ loads[i][2].called /\ ~loads[i][2].ok
          /\ loads[i][3].called /\ loads[i][3].ok
          /\ outcome[i] = "true"
    /\ \E i \in 1..Len(loads) :
          /\ Len(loads[i]) = 3
          /\ loads[i][2].called /\ loads[i][2].ok
          /\ loads[i][3].called /\ ~loads[i][3].ok
          /\ outcome[i] = "true"

\* C11: a symbol whose overview fetch returned nothing, or whose overview
\* transform_stock turns into nothing, never gets past the transform of line
\* 270: it is ended with False and filed as failed, the quote fetch was invoked
\* for it all the same, transform_price and the loads are never reached for it,
\* and the tables hold exactly the rows of the loads the other symbols made.
LoadOrder == <<"stock", "price", "fundamental">>

\* the positions of the batch whose k-th load stored a new row
Insertions(k) ==
    {i \in 1..Len(loads) :
        /\ Len(loads[i]) >= k
        /\ loads[i][k].called /\ loads[i][k].ok
        /\ k = 1 => loads[i][k].found = 0}

C11_FailedOverviewSkipsSymbol ==
    /\ ppc \in {"transform", "load_stock", "price", "fundamental"} =>
          extracts[idx] = <<"OVERVIEW", "GLOBAL_QUOTE">>
    /\ ppc \in {"load_stock", "price", "fundamental"} =>
          /\ company_data # <<>>
          /\ company_data[1] # EmptyPayload
          /\ stock # <<>>
          /\ stock = transform_stock(upper(symbols[idx]), company_data)
    /\ ppc \in {"idle", "extract_info", "extract_quote", "transform"} =>
          (idx <= Len(loads) => loads[idx] = <<>>)
    /\ \A i \in 1..Len(outcome) :
          loads[i] = <<>> =>
              /\ outcome[i] \in {"false", "raise"}
              /\ outcome[i] = "false" => extracts[i] = <<"OVERVIEW", "GLOBAL_QUOTE">>
              /\ Listed(symbols[i], results.failed)
    /\ \A i \in 1..Len(loads) : \A k \in 1..Len(loads[i]) :
          k <= 3 /\ loads[i][k].op = LoadOrder[k]
    /\ Cardinality(stocks) = Cardinality(Insertions(1))
    /\ Len(prices) = Cardinality(Insertions(2))
    /\ Len(fundamentals) = Cardinality(Insertions(3))

C11_Witness ==
    /\ idx = 2
    /\ ppc = "transform"
    /\ company_data = <<>>
    /\ quote_data # <<>>
    /\ outcome = <<"false">>
    /\ loads = << <<>>, <<>> >>
    /\ stocks = {} /\ prices = <<>> /\ fundamentals = <<>>

\* C12: every acquire(n) with n >= 1 first refills, tokens becoming
\* min(max_tokens, tokens + time_elapsed * refill_rate) and the time of the last
\* refill becoming now; if the refilled level is at least n it takes exactly n
\* from it and returns True, otherwise it returns False and leaves the refilled
\* level in place. (A step of the stand-alone bucket is an idle wait, which
\* moves time forward, or an acquire.)
C12_AcquireRefillsThenTakes ==
    [][\/ time_elapsed' > time_elapsed
       \/ LET n == requested'
              cap == max_tokens * TokenScale
              level == tokens + time_elapsed * refill_rate
              refilled == IF level < cap THEN level ELSE cap
          IN  /\ n >= 1
              /\ time_elapsed' = 0
              /\ IF refilled >= n * TokenScale
                 THEN tokens' = refilled - n * TokenScale /\ acquired' = "true"
                 ELSE tokens' = refilled /\ acquired' = "false"]_vars

C12_Witness ==
    /\ requested = 2
    /\ acquired = "false"
    /\ time_elapsed = 0
    /\ tokens > TokenScale
    /\ tokens % TokenScale # 0

\* C13: an acquire(n) with n <= 0 never returns True and never leaves more
\* tokens than the bucket can hold.
C13_NonPositiveIsRejected ==
    (acquired # "none" /\ requested <= 0) =>
        /\ acquired # "true"
        /\ tokens <= max_tokens * TokenScale

\* C14: on a bucket just built with max_tokens = C >= 1, with no time passing
\* between the calls, the first C calls of acquire(1) return True, each taking
\* one token, and call C + 1 returns False.
C14_BurstOfCapacity ==
    streak >= 1 =>
        IF streak <= max_tokens
        THEN acquired = "true" /\ tokens = (max_tokens - streak) * TokenScale
        ELSE acquired = "false" /\ tokens = 0

C14_Witness ==
    /\ max_tokens = MaxCapacity
    /\ refill_rate > 0
    /\ streak = max_tokens + 1
    /\ acquired = "false"

\* the number of acquire(1) calls that return True back to back, with no time
\* passing, on a bucket whose refilled level is tok
RECURSIVE BurstCount(_)
BurstCount(tok) == IF enough(tok, 1) THEN 1 + BurstCount(take(tok, 1)) ELSE 0

\* how many more acquire(1) calls succeed back to back after idling t ticks
\* than succeed at once
Gain(t) ==
    BurstCount(refill(tokens, time_elapsed + t)) - BurstCount(refill(tokens, time_elapsed))

\* C15 as stated: from every reachable state and for every wait t the gain is
\* at most floor(t * refill_rate) tokens.
C15_Original_GainAtMostFloor ==
    \A t \in 1..MaxElapsed : Gain(t) <= (t * refill_rate) \div TokenScale

\* C15: from every reachable state, whole or fractional, and for every wait t
\* the gain is at most ceil(t * refill_rate) tokens, and never negative.
C15_GainAtMostCeil ==
    \A t \in 1..MaxElapsed :
        /\ Gain(t) >= 0
        /\ Gain(t) <= (t * refill_rate + TokenScale - 1) \div TokenScale

C15_Witness ==
    /\ acquired = "false"
    /\ tokens % TokenScale # 0
    /\ \E t \in 1..MaxElapsed :
          /\ t * refill_rate < TokenScale
          /\ Gain(t) = 1

\* C16: every invocation of _make_request ends: the wait for the limiter before
\* each attempt ends with a permit, and the invocation returns the payload at
\* the first success, None at the first "Error Message", None after
\* max_retries attempts that were all retryable (or leaves by the exception of
\* a body that is not JSON); every attempt before the last one was retryable
\* and was followed by its sleep.
C16_FetchReturns ==
    /\ [](fpc \in Returned =>
            /\ calls >= 1 /\ calls <= max_retries
            /\ fpc = "returned_data" =>
                  /\ result # <<>>
                  /\ Is200(response) /\ ~response.error /\ ~response.note
                  /\ Len(sleeps) = calls - 1
            /\ fpc = "returned_error" =>
                  /\ result = <<>>
                  /\ Is200(response) /\ response.error
                  /\ Len(sleeps) = calls - 1
            /\ fpc = "returned_exhausted" =>
                  /\ result = <<>>
                  /\ calls = max_retries
                  /\ Len(sleeps) = max_retries
            /\ fpc = "raised" => response.exc = "ValueError")
    /\ (fpc = "acquire") ~> (fpc = "request")
    /\ (fpc \in {"acquire", "request"}) ~> (fpc \in Returned)

C16_Witness ==
    /\ fetches = MaxFetches
    /\ fpc = "returned_data"
    /\ calls = max_retries
    /\ tokens < TokenScale

\* C17: the record transform_stock hands to load_stock has a null market cap
\* when the overview has no MarketCapitalization field (not zero), the integer
\* value of the field when it is a numeric string, and the symbol as its name
\* when the overview has no Name field.
C17_TransformStockDefaults ==
    ppc = "load_stock" =>
        LET d == company_data[1] IN
        /\ d.MarketCapitalization = Missing => stock[1].market_cap = <<>>
        /\ IsIntLiteral(d.MarketCapitalization) =>
              stock[1].market_cap = <<IntOf(d.MarketCapitalization)>>
        /\ d.Name = Missing => stock[1].name = upper(symbols[idx])

\* C18 as stated: a backoff sleep follows retryable attempt i (from 0) only
\* when i < max_retries - 1; after the last attempt there is none.
C18_Original_NoSleepAfterLastAttempt ==
    \A i \in 1..Len(sleeps) :
        sleeps[i].kind = "backoff" =>
            /\ sleeps[i].delay = Seconds(base_delay * Pow2(i - 1))
            /\ i - 1 < max_retries - 1

\* C18: every retryable attempt i (from 0) is followed by one sleep, the last
\* attempt included; a backoff sleep lasts base_delay * 2^i, so an invocation
\* whose last attempt fails with a timeout, a network error or a non-200 status
\* sleeps base_delay * 2^(max_retries - 1) = 16 s and only then returns None.
C18_SleepFollowsEveryAttempt ==
    /\ Len(sleeps) = attempt
    /\ \A i \in 1..Len(sleeps) :
          sleeps[i].kind = "backoff" =>
              sleeps[i].delay = Seconds(base_delay * Pow2(i - 1))
    /\ (fpc = "returned_exhausted" /\ classify(response) = "backoff") =>
          /\ Len(sleeps) = max_retries
          /\ sleeps[max_retries] =
                [kind |-> "backoff", delay |-> Seconds(base_delay * Pow2(max_retries - 1))]
          /\ time_elapsed >= Seconds(base_delay * Pow2(max_retries - 1))

C18_Witness ==
    /\ fpc = "returned_exhausted"
    /\ response.exc = "none" /\ response.status = 500
    /\ calls = max_retries
    /\ LastSleep = [kind |-> "backoff", delay |-> Seconds(16)]

\* C19: in every state of a batch run the remote calls issued so far are no
\* more than the permits debited so far (permits_unused is their difference),
\* over all attempts, both fetches of a symbol and all symbols: a call is
\* issued only on a permit of its own, granted by the last acquire(1), and
\* uses it up.
C19_CallsNeverExceedPermits ==
    /\ permits_unused >= 0
    /\ permits_unused <= 1
    /\ fpc = "request" <=> permits_unused = 1
    /\ fpc = "request" => (acquired = "true" /\ requested = 1)

C19_Witness ==
    /\ idx = 2
    /\ function = "GLOBAL_QUOTE"
    /\ attempt >= 1
    /\ fpc = "request"
    /\ permits_unused = 1
    /\ tokens < max_tokens * TokenScale

\* the calls of acquire(1) that have returned True
Granted == {t \in Threads : tpc[t] = "returned_true"}

\* C20: when several threads call acquire(1) on one full bucket with no time
\* passing, whatever the order of their reads and writes: tokens is never
\* negative, no more calls return True than the bucket held, and every call
\* that returned True has taken its own token (the result is that of the
\* calls made one after the other).
C20_ConcurrentAcquireIsSerialized ==
    /\ tokens >= 0
    /\ Cardinality(Granted) <= max_tokens
    /\ (\A t \in Threads : tpc[t] \in {"idle", "returned_true", "returned_false"}) =>
          tokens = (max_tokens - Cardinality(Granted)) * TokenScale

\* C21: when load_stock runs in several sessions at once, the store never
\* holds two rows for one ticker, and every call that has returned has
\* returned the id of the one stored row of its ticker.
C21_ConcurrentUpsertIsAtomic ==
    /\ \A a, b \in stocks : a.ticker = b.ticker => a = b
    /\ \A t \in Threads :
          sess[t].pc = "returned" =>
              \E r \in stocks :
                  /\ r.ticker = sess[t].stock[1].ticker
                  /\ r.id = sess[t].id

\* C22: the loads of one symbol are one transaction: no symbol has one load
\* committed and another rolled back, and a symbol that ended with True has
\* every load it called committed.
C22_OneTransactionPerSymbol ==
    \A i \in 1..Len(loads) :
        LET L == loads[i]
            committed == {k \in 1..Len(L) : L[k].called /\ L[k].ok}
            rolled_back == {k \in 1..Len(L) : L[k].called /\ ~L[k].ok}
        IN  /\ committed = {} \/ rolled_back = {}
            /\ (i <= Len(outcome) /\ outcome[i] = "true") => rolled_back = {}

\* the price rows stored for entity id and today's date
PriceRows(id) == {k \in 1..Len(prices) : prices[k].stock_id = id /\ prices[k].date = Today}

\* the positions of the batch whose price load for entity id was committed
PriceLoads(id) ==
    {i \in 1..Len(loads) :
        /\ Len(loads[i]) >= 2
        /\ loads[i][2].op = "price" /\ loads[i][2].called /\ loads[i][2].ok
        /\ loads[i][2].id = id}

\* C23: price rows are only appended: every committed price load adds one row
\* for its entity and today's date, whatever rows are there already, so an
\* entity processed k times with success has one entity row and k price rows
\* with the same (stock_id, date); rows of other dates or entities never appear.
C23_PriceRowsAreAppended ==
    /\ \A r \in stocks :
          /\ Cardinality(PriceRows(r.id)) = Cardinality(PriceLoads(r.id))
          /\ lookup(r.ticker) = {r}
    /\ \A k \in 1..Len(prices) :
          /\ prices[k].date = Today
          /\ \E r \in stocks : r.id = prices[k].stock_id

C23_Witness ==
    /\ rpc = "returned"
    /\ symbols = <<"aapl", "aapl">>
    /\ outcome = <<"true", "true">>
    /\ \A i \in 1..2 : \A k \in 1..3 : loads[i][k].called /\ loads[i][k].ok
    /\ Cardinality(stocks) = 1
    /\ Len(prices) = 2
    /\ prices[1].stock_id = prices[2].stock_id
    /\ prices[1].date = prices[2].date

====
